---- MODULE Spec2Model ----
(***************************************************************************)
(* Model of pl_bolts/models/autoencoders/basic_ae/basic_ae_module.py:      *)
(* the AE LightningModule (construction, pretrained registry, step,        *)
(* training_step, validation_step, argument parser) and the cli_main       *)
(* script.                                                                 *)
(*                                                                         *)
(* Python's None is the empty tuple, a present value v is <<v>>.           *)
(* The sub-networks (resnet encoder, nn.Linear, resnet decoder), the       *)
(* data modules and the Trainer are external: a sub-network is a           *)
(* deterministic map of the model's parameter state and its input over a   *)
(* small value domain, a data module is a record with some size tuple,     *)
(* the trainer is the record of the arguments it was built from.           *)
(***************************************************************************)
EXTENDS Integers, Sequences, FiniteSets, TLC

\* ---------------------------------------------------------------- bounds
MaxDim == 2        \* image dimensions range over 1..MaxDim
MaxStepsArg == 1   \* --max_steps ranges over -1..MaxStepsArg
MaxPixel == 2      \* tensor values range over 0..MaxPixel
MaxLabel == 1      \* labels range over 0..MaxLabel
MaxWeight == 1     \* the parameter state of a model ranges over 0..MaxWeight
MaxLoads == 2      \* checkpoint loads recorded

None == <<>>
Some(v) == <<v>>
Get(o) == o[1]

Pixels == 0 .. MaxPixel
Labels == 0 .. MaxLabel
Weights == 0 .. MaxWeight
Modulus == MaxPixel + 1

\* ------------------------------------------------------ class attributes
PretrainedUrlsInit ==
    [n \in {"cifar10-resnet18"} |->
        "https://pl-bolts-weights.s3.us-east-2.amazonaws.com/ae/ae-cifar10/checkpoints/epoch%3D96.ckpt"]

\* names a caller may pass to from_pretrained: the registry's key, the two
\* names of the class docstring, and an unrelated one
DocstringNames == {"resnet50-imagenet", "resnet18-cifar10"}
CheckpointNames == DOMAIN PretrainedUrlsInit \cup DocstringNames \cup {"mnist-resnet18"}

\* ------------------------------------------------------------ the parser
\* A command line is a function from the options it gives to their values;
\* a store_true flag that is given maps to TRUE.
DatasetVals == {"cifar10", "stl10", "imagenet", "mnist"}
EncTypeVals == {"resnet18", "resnet50", "vgg16"}
MaxStepsVals == -1 .. MaxStepsArg
MaxEpochsVals == {1}
OptNames == {"dataset", "enc_type", "first_conv", "maxpool1", "max_epochs", "max_steps"}

Restrict(f, S) == [k \in S |-> f[k]]

CmdLines ==
    { Restrict(full, S) :
        full \in [dataset : DatasetVals, enc_type : EncTypeVals, first_conv : {TRUE},
                  maxpool1 : {TRUE}, max_epochs : MaxEpochsVals, max_steps : MaxStepsVals],
        S \in SUBSET OptNames }

Opt(argv, name, default) == IF name \in DOMAIN argv THEN argv[name] ELSE default

\* parser = ArgumentParser(); parser.add_argument("--dataset", default="cifar10")
\* script_args, _ = parser.parse_known_args(args)
ParseScriptArgs(argv) == [dataset |-> Opt(argv, "dataset", "cifar10")]

\* AE.add_model_specific_args(parser) followed by parser.parse_args(args):
\* the namespace holds --dataset of the parent parser and every option added
AddModelSpecificArgs(argv) ==
    [dataset      |-> Opt(argv, "dataset", "cifar10"),
     enc_type     |-> Opt(argv, "enc_type", "resnet18"),
     first_conv   |-> "first_conv" \in DOMAIN argv,
     maxpool1     |-> "maxpool1" \in DOMAIN argv,
     lr           |-> "1e-4",
     enc_out_dim  |-> 512,
     latent_dim   |-> 256,
     batch_size   |-> 256,
     num_workers  |-> 8,
     data_dir     |-> ".",
     gpus         |-> 1,
     max_epochs   |-> Some(Opt(argv, "max_epochs", 200)),
     max_steps    |-> Some(Opt(argv, "max_steps", -1)),
     fast_dev_run |-> FALSE]

\* -------------------------------------------------------------- AE.__init__
\* variant: the resnet50 entry names the resnet18 decoder
ValidEncoders_Mixed ==
    [resnet18 |-> [enc |-> "resnet18_encoder", dec |-> "resnet18_decoder"],
     resnet50 |-> [enc |-> "resnet50_encoder", dec |-> "resnet18_decoder"]]

ValidEncoders ==
    [resnet18 |-> [enc |-> "resnet18_encoder", dec |-> "resnet18_decoder"],
     resnet50 |-> [enc |-> "resnet50_encoder", dec |-> "resnet50_decoder"]]

\* kw: the keyword arguments of the call, input_height among them; w: the
\* parameter state the sub-networks are initialised with
AEInit(kw, w) ==
    LET enc_type     == Opt(kw, "enc_type", "resnet18")
        first_conv   == Opt(kw, "first_conv", FALSE)
        maxpool1     == Opt(kw, "maxpool1", FALSE)
        enc_out_dim  == Opt(kw, "enc_out_dim", 512)
        latent_dim   == Opt(kw, "latent_dim", 256)
        lr           == Opt(kw, "lr", "1e-4")
        input_height == kw["input_height"]
        encFn == IF enc_type \notin DOMAIN ValidEncoders
                 THEN "resnet18_encoder" ELSE ValidEncoders[enc_type]["enc"]
        decFn == IF enc_type \notin DOMAIN ValidEncoders
                 THEN "resnet18_decoder" ELSE ValidEncoders[enc_type]["dec"]
    IN [hparams      |-> kw,
        lr           |-> lr,
        enc_out_dim  |-> enc_out_dim,
        latent_dim   |-> latent_dim,
        input_height |-> input_height,
        encoder |-> [fn |-> encFn, first_conv |-> first_conv, maxpool1 |-> maxpool1,
                     weight |-> w],
        decoder |-> [fn |-> decFn, latent_dim |-> latent_dim, input_height |-> input_height,
                     first_conv |-> first_conv, maxpool1 |-> maxpool1, weight |-> w],
        fc      |-> [in_features |-> enc_out_dim, out_features |-> latent_dim,
                     weight |-> w]]

WeightInits == Weights

\* ------------------------------------------------------------------ state
VARIABLES
    pc,              \* position of the running program
    cmdline,         \* the command line cli_main was called with
    script_args,     \* cli_main: namespace of the first parse
    dm_cls,          \* cli_main: the selected data module class
    args,            \* cli_main: namespace of the second parse
    dm,              \* cli_main: the data module
    model,           \* the AE object (cli_main's, or the library user's)
    callbacks,       \* cli_main: the callback list
    trainer,         \* cli_main: the trainer
    fits,            \* the (trainer, model, dm) triples trainer.fit was launched with
    excs,            \* the exceptions the module's own raise statements raised
    pretrained_urls, \* AE.pretrained_urls
    last,            \* the last call of a method of AE and what it returned
    loads            \* the load_from_checkpoint calls made, in order

cliVars == <<cmdline, script_args, dm_cls, args, dm, callbacks, trainer, fits>>
libVars == <<pretrained_urls, last, loads>>
vars == <<pc, cmdline, script_args, dm_cls, args, dm, model, callbacks, trainer, fits, excs,
          pretrained_urls, last, loads>>

Init ==
    /\ pc = "idle"
    /\ cmdline = None
    /\ script_args = None
    /\ dm_cls = None
    /\ args = None
    /\ dm = None
    /\ model = None
    /\ callbacks = None
    /\ trainer = None
    /\ fits = <<>>
    /\ excs = {}
    /\ pretrained_urls = PretrainedUrlsInit
    /\ last = None
    /\ loads = <<>>

\* ---------------------------------------------------------------- cli_main
\* lines 161-163
CliParseDataset ==
    /\ pc = "idle"
    /\ \E argv \in CmdLines :
          /\ cmdline' = Some(argv)
          /\ script_args' = Some(ParseScriptArgs(argv))
    /\ pc' = "select"
    /\ UNCHANGED <<dm_cls, args, dm, model, callbacks, trainer, fits, excs, libVars>>

\* variant: the imagenet branch is missing
SelectDataset_NoImagenet(dataset) ==
    IF dataset = "cifar10" THEN Some("CIFAR10DataModule")
    ELSE IF dataset = "stl10" THEN Some("STL10DataModule")
    ELSE None

SelectDataset(dataset) ==
    IF dataset = "cifar10" THEN Some("CIFAR10DataModule")
    ELSE IF dataset = "stl10" THEN Some("STL10DataModule")
    ELSE IF dataset = "imagenet" THEN Some("ImagenetDataModule")
    ELSE None

\* lines 165-172
CliSelectDataset ==
    /\ pc = "select"
    /\ LET sel == SelectDataset(Get(script_args).dataset) IN
          IF sel # None
          THEN /\ dm_cls' = sel
               /\ pc' = "parse"
               /\ excs' = excs
          ELSE /\ dm_cls' = dm_cls
               /\ pc' = "raised"
               /\ excs' = excs \cup {[type |-> "ValueError", origin |-> "cli_main"]}
    /\ UNCHANGED <<cmdline, script_args, args, dm, model, callbacks, trainer, fits, libVars>>

\* lines 174-175
CliParseArgs ==
    /\ pc = "parse"
    /\ args' = Some(AddModelSpecificArgs(Get(cmdline)))
    /\ pc' = "datamodule"
    /\ UNCHANGED <<cmdline, script_args, dm_cls, dm, model, callbacks, trainer, fits, excs, libVars>>

\* line 177; the data module's size is whatever the external class reports
DmSizes == {<<c, h, w>> : c \in {3}, h \in 1 .. MaxDim, w \in 1 .. MaxDim}

CliBuildDataModule ==
    /\ pc = "datamodule"
    /\ \E size \in DmSizes :
          dm' = Some([cls |-> Get(dm_cls), size |-> size])
    /\ pc' = "height"
    /\ UNCHANGED <<cmdline, script_args, dm_cls, args, model, callbacks, trainer, fits, excs, libVars>>

\* variant: the first entry of the size is taken
InputHeight_First(size) == size[1]

InputHeight(size) == size[Len(size)]

\* line 178
CliSetInputHeight ==
    /\ pc = "height"
    /\ args' = Some([k \in DOMAIN Get(args) \cup {"input_height"} |->
                       IF k = "input_height" THEN InputHeight(Get(dm).size) ELSE Get(args)[k]])
    /\ pc' = "maxsteps"
    /\ UNCHANGED <<cmdline, script_args, dm_cls, dm, model, callbacks, trainer, fits, excs, libVars>>

\* variant: every falsy or negative step limit becomes None
ConvertMaxSteps_Falsy(ms) == IF Get(ms) <= 0 THEN None ELSE ms

ConvertMaxSteps(ms) == IF ms = Some(-1) THEN None ELSE ms

\* lines 180-181
CliConvertMaxSteps ==
    /\ pc = "maxsteps"
    /\ args' = Some([Get(args) EXCEPT !.max_steps = ConvertMaxSteps(@)])
    /\ pc' = "model"
    /\ UNCHANGED <<cmdline, script_args, dm_cls, dm, model, callbacks, trainer, fits, excs, libVars>>

\* line 183
CliBuildModel ==
    /\ pc = "model"
    /\ \E w \in WeightInits : model' = Some(AEInit(Get(args), w))
    /\ pc' = "callbacks"
    /\ UNCHANGED <<cmdline, script_args, dm_cls, args, dm, callbacks, trainer, fits, excs, libVars>>

\* line 184
CliBuildCallbacks ==
    /\ pc = "callbacks"
    /\ callbacks' = Some(<<"TensorboardGenerativeModelImageSampler">>)
    /\ pc' = "trainer"
    /\ UNCHANGED <<cmdline, script_args, dm_cls, args, dm, model, trainer, fits, excs, libVars>>

\* pl.Trainer.from_argparse_args(ns): the trainer takes each of its
\* parameters from the namespace when the namespace has it
TrainerFromArgparseArgs(ns) ==
    [gpus         |-> Opt(ns, "gpus", None),
     max_epochs   |-> Opt(ns, "max_epochs", None),
     max_steps    |-> Opt(ns, "max_steps", None),
     fast_dev_run |-> Opt(ns, "fast_dev_run", FALSE),
     callbacks    |-> Opt(ns, "callbacks", None)]

\* variant: the callback list is handed to the trainer
CliBuildTrainer_WithCallbacks ==
    /\ pc = "trainer"
    /\ trainer' = Some([TrainerFromArgparseArgs(Get(args)) EXCEPT !.callbacks = callbacks])
    /\ pc' = "fit"
    /\ UNCHANGED <<cmdline, script_args, dm_cls, args, dm, model, callbacks, fits, excs, libVars>>

\* line 186
CliBuildTrainer ==
    /\ pc = "trainer"
    /\ trainer' = Some(TrainerFromArgparseArgs(Get(args)))
    /\ pc' = "fit"
    /\ UNCHANGED <<cmdline, script_args, dm_cls, args, dm, model, callbacks, fits, excs, libVars>>

\* lines 187-188
CliFit ==
    /\ pc = "fit"
    /\ fits' = Append(fits, [trainer |-> Get(trainer), model |-> Get(model), dm |-> Get(dm)])
    /\ pc' = "done"
    /\ UNCHANGED <<cmdline, script_args, dm_cls, args, dm, model, callbacks, trainer, excs, libVars>>

\* ------------------------------------------------------- library use of AE
\* the keyword arguments a caller of AE(...) gives
CtorKwargs ==
    { Restrict(full, S \cup {"input_height"}) :
        full \in [input_height : 1 .. MaxDim, enc_type : EncTypeVals,
                  first_conv : BOOLEAN, maxpool1 : BOOLEAN],
        S \in {{"first_conv", "maxpool1"}, {"enc_type", "first_conv", "maxpool1"}} }

\* lines 24-86, called by a user of the class
Construct ==
    /\ pc = "idle"
    /\ \E kw \in CtorKwargs, w \in WeightInits : model' = Some(AEInit(kw, w))
    /\ pc' = "lib"
    /\ UNCHANGED <<cliVars, excs, libVars>>

\* list(AE.pretrained_urls.keys())
KeysList(urls) ==
    CHOOSE s \in [1 .. Cardinality(DOMAIN urls) -> DOMAIN urls] :
        {s[i] : i \in DOMAIN s} = DOMAIN urls

\* lines 88-90
PretrainedWeightsAvailable ==
    /\ pc = "lib"
    /\ last' = Some([op |-> "pretrained_weights_available", ret |-> KeysList(pretrained_urls)])
    /\ UNCHANGED <<pc, cliVars, model, excs, pretrained_urls, loads>>

\* line 93: checkpoint_name not in AE.pretrained_urls
NotPresent(urls, checkpoint_name) == checkpoint_name \notin DOMAIN urls

\* variant: the checkpoint name is passed where the URL belongs
LoadArgs_ByName(urls, checkpoint_name) == [path |-> checkpoint_name, strict |-> FALSE]

\* line 96: the arguments of load_from_checkpoint
LoadArgs(urls, checkpoint_name) == [path |-> urls[checkpoint_name], strict |-> FALSE]

\* variant: the checkpoint is requested before the name is checked
FromPretrained_LoadFirst(checkpoint_name) ==
    /\ pc = "lib"
    /\ Len(loads) < MaxLoads
    /\ loads' = Append(loads, [path |-> Opt(pretrained_urls, checkpoint_name, checkpoint_name),
                               strict |-> FALSE])
    /\ IF NotPresent(pretrained_urls, checkpoint_name)
       THEN /\ excs' = excs \cup {[type |-> "KeyError", origin |-> "from_pretrained"]}
            /\ last' = Some([op |-> "from_pretrained", arg |-> checkpoint_name,
                             raised |-> TRUE, ret |-> None])
       ELSE /\ excs' = excs
            /\ last' = Some([op |-> "from_pretrained", arg |-> checkpoint_name,
                             raised |-> FALSE,
                             ret |-> Some([loaded_from |-> pretrained_urls[checkpoint_name]])])
    /\ UNCHANGED <<pc, cliVars, model, pretrained_urls>>

\* lines 92-96; load_from_checkpoint builds a new model from the checkpoint
\* and leaves self alone
FromPretrained(checkpoint_name) ==
    /\ pc = "lib"
    /\ IF NotPresent(pretrained_urls, checkpoint_name)
       THEN /\ excs' = excs \cup {[type |-> "KeyError", origin |-> "from_pretrained"]}
            /\ last' = Some([op |-> "from_pretrained", arg |-> checkpoint_name,
                             raised |-> TRUE, ret |-> None])
            /\ loads' = loads
       ELSE /\ Len(loads) < MaxLoads
            /\ excs' = excs
            /\ loads' = Append(loads, LoadArgs(pretrained_urls, checkpoint_name))
            /\ last' = Some([op |-> "from_pretrained", arg |-> checkpoint_name,
                             raised |-> FALSE,
                             ret |-> Some([loaded_from |->
                                             LoadArgs(pretrained_urls, checkpoint_name).path])])
    /\ UNCHANGED <<pc, cliVars, model, pretrained_urls>>

\* the external sub-networks: deterministic maps of weight and input
Encoder(net, x) == (x + net.weight) % Modulus
Linear(net, feats) == (2 * feats + net.weight + 1) % Modulus
Decoder(net, z) == (z * z + net.weight) % Modulus

\* F.mse_loss(input, target, reduction='mean') of one-element tensors
MseLoss(input, target) == (input - target) * (input - target)

\* lines 98-99
Forward ==
    /\ pc = "lib"
    /\ \E z \in Pixels :
          last' = Some([op |-> "forward", arg |-> z, ret |-> Decoder(Get(model).decoder, z)])
    /\ UNCHANGED <<pc, cliVars, model, excs, pretrained_urls, loads>>

\* lines 126-127
ConfigureOptimizers ==
    /\ pc = "lib"
    /\ last' = Some([op |-> "configure_optimizers",
                     ret |-> [optimizer |-> "Adam", lr |-> Get(model).lr]])
    /\ UNCHANGED <<pc, cliVars, model, excs, pretrained_urls, loads>>

\* variant: the reconstruction is compared with the label
Step_LabelTarget(m, batch) ==
    LET x == batch[1]
        y == batch[2]
        feats == Encoder(m.encoder, x)
        z == Linear(m.fc, feats)
        x_hat == Decoder(m.decoder, z)
        loss == MseLoss(x_hat, y)
    IN [loss  |-> loss,
        logs  |-> [k \in {"loss"} |-> loss],
        calls |-> << [net |-> "encoder", in |-> x, out |-> feats],
                     [net |-> "fc", in |-> feats, out |-> z],
                     [net |-> "decoder", in |-> z, out |-> x_hat] >>]

\* lines 101-110; calls is the order in which the sub-networks were applied
Step(m, batch) ==
    LET x == batch[1]
        y == batch[2]
        feats == Encoder(m.encoder, x)
        z == Linear(m.fc, feats)
        x_hat == Decoder(m.decoder, z)
        loss == MseLoss(x_hat, x)
    IN [loss  |-> loss,
        logs  |-> [k \in {"loss"} |-> loss],
        calls |-> << [net |-> "encoder", in |-> x, out |-> feats],
                     [net |-> "fc", in |-> feats, out |-> z],
                     [net |-> "decoder", in |-> z, out |-> x_hat] >>]

\* result.log_dict(d, on_step, on_epoch)
LogDict(d, on_step, on_epoch) ==
    { [key |-> k, value |-> d[k], on_step |-> on_step, on_epoch |-> on_epoch] : k \in DOMAIN d }

Prefixed(prefix, logs) ==
    LET keyOf == [k \in DOMAIN logs |-> prefix \o k]
    IN [pk \in {keyOf[k] : k \in DOMAIN logs} |->
           logs[CHOOSE k \in DOMAIN logs : keyOf[k] = pk]]

\* variant: the training log uses the validation prefix
TrainResult_ValPrefix(st) ==
    [cls |-> "TrainResult", minimize |-> Some(st.loss), checkpoint_on |-> None,
     logged |-> LogDict(Prefixed("val_", st.logs), Some(TRUE), Some(FALSE))]

\* lines 114-117
TrainResult(st) ==
    [cls |-> "TrainResult", minimize |-> Some(st.loss), checkpoint_on |-> None,
     logged |-> LogDict(Prefixed("train_", st.logs), Some(TRUE), Some(FALSE))]

\* lines 122-123
EvalResult(st) ==
    [cls |-> "EvalResult", minimize |-> None, checkpoint_on |-> Some(st.loss),
     logged |-> LogDict(Prefixed("val_", st.logs), None, None)]

Batches == Pixels \X Labels

\* lines 112-118
TrainingStep ==
    /\ pc = "lib"
    /\ \E batch \in Batches :
          LET st == Step(Get(model), batch)
          IN last' = Some([op |-> "training_step", batch |-> batch, calls |-> st.calls,
                             ret |-> TrainResult(st)])
    /\ UNCHANGED <<pc, cliVars, model, excs, pretrained_urls, loads>>

\* lines 120-124
ValidationStep ==
    /\ pc = "lib"
    /\ \E batch \in Batches :
          LET st == Step(Get(model), batch)
          IN last' = Some([op |-> "validation_step", batch |-> batch, calls |-> st.calls,
                             ret |-> EvalResult(st)])
    /\ UNCHANGED <<pc, cliVars, model, excs, pretrained_urls, loads>>

Next ==
    \/ CliParseDataset
    \/ CliSelectDataset
    \/ CliParseArgs
    \/ CliBuildDataModule
    \/ CliSetInputHeight
    \/ CliConvertMaxSteps
    \/ CliBuildModel
    \/ CliBuildCallbacks
    \/ CliBuildTrainer
    \/ CliFit
    \/ Construct
    \/ PretrainedWeightsAvailable
    \/ \E checkpoint_name \in CheckpointNames : FromPretrained(checkpoint_name)
    \/ Forward
    \/ ConfigureOptimizers
    \/ TrainingStep
    \/ ValidationStep

Spec == Init /\ [][Next]_vars

\* ================================================================ properties
IsCall(op) == last # None /\ Get(last).op = op
InCli == cmdline # None
KeyErrorExc == [type |-> "KeyError", origin |-> "from_pretrained"]
ValueErrorExc == [type |-> "ValueError", origin |-> "cli_main"]
GivenDataset == Opt(Get(cmdline), "dataset", "cifar10")
KnownDatasets == {"cifar10", "stl10", "imagenet"}

\* C1: a from_pretrained call whose checkpoint name is not a key of the
\* registry raises KeyError, returns nothing, makes no load_from_checkpoint
\* call, and leaves the registry and the model as they were.
C1_UnknownNameRaises ==
    [][ (last' # None /\ Get(last').op = "from_pretrained"
            /\ Get(last').arg \notin DOMAIN pretrained_urls)
        => /\ Get(last').raised
           /\ Get(last').ret = None
           /\ KeyErrorExc \in excs'
           /\ loads' = loads
           /\ model' = model
           /\ pretrained_urls' = pretrained_urls ]_vars

C1_Witness ==
    /\ IsCall("from_pretrained")
    /\ Get(last).arg \notin DOMAIN pretrained_urls
    /\ Get(last).raised
    /\ loads # <<>>

\* C2 as stated: the only exception the module's own code ever raises is the
\* KeyError of from_pretrained.
C2_OnlyKeyError == excs \subseteq {KeyErrorExc}

\* C2 amended: the module's own code raises exactly two errors, the KeyError
\* of from_pretrained and the ValueError of cli_main for a --dataset that is
\* none of cifar10, stl10, imagenet; construction, the steps and the parser
\* raise nothing.
C2_TwoExplicitErrors ==
    /\ excs \subseteq {KeyErrorExc, ValueErrorExc}
    /\ ValueErrorExc \in excs <=> pc = "raised"
    /\ pc = "raised" => InCli /\ GivenDataset \notin KnownDatasets
    /\ (InCli /\ GivenDataset \notin KnownDatasets) => pc \in {"select", "raised"}
    /\ KeyErrorExc \in excs => pc = "lib"
    /\ (IsCall("from_pretrained") /\ Get(last).raised) => KeyErrorExc \in excs

C2_Witness == pc = "raised" /\ ValueErrorExc \in excs /\ GivenDataset = "mnist"

\* C3: pretrained_weights_available returns exactly the registry's names,
\* and from_pretrained(n) loads a checkpoint if and only if n is one of the
\* names pretrained_weights_available returns, and then from the URL the
\* registry maps n to.
C3_RegistryAccessorsAgree ==
    /\ IsCall("pretrained_weights_available") =>
          /\ {Get(last).ret[i] : i \in DOMAIN Get(last).ret} = DOMAIN pretrained_urls
          /\ Len(Get(last).ret) = Cardinality(DOMAIN pretrained_urls)
    /\ IsCall("from_pretrained") =>
          LET n == Get(last).arg
              avail == KeysList(pretrained_urls)
              listed == n \in {avail[i] : i \in DOMAIN avail}
          IN /\ (Get(last).ret # None) <=> listed
             /\ Get(last).raised <=> ~listed
             /\ listed =>
                   /\ loads # <<>>
                   /\ loads[Len(loads)].path = pretrained_urls[n]
                   /\ Get(Get(last).ret).loaded_from = pretrained_urls[n]
    /\ \A i \in DOMAIN loads : \E n \in DOMAIN pretrained_urls : loads[i].path = pretrained_urls[n]

C3_Witness ==
    /\ IsCall("from_pretrained")
    /\ Get(last).arg = "cifar10-resnet18"
    /\ Get(last).ret # None
    /\ Len(loads) = 1

\* C4: from_pretrained called with a name the class docstring advertises
\* ('resnet50-imagenet', 'resnet18-cifar10') returns a pretrained model and
\* raises no KeyError.
C4_DocstringNamesAccepted ==
    (IsCall("from_pretrained") /\ Get(last).arg \in DocstringNames)
        => ~Get(last).raised /\ Get(last).ret # None

\* C5: the data module class follows --dataset (default cifar10); an unknown
\* dataset stops the run before a data module, a model or a trainer exists;
\* otherwise trainer.fit is launched once, at the end, with the data module
\* built from the selected class and the model built from the parsed
\* arguments whose input_height is the last entry of the data module's size.
DmClsOf(dataset) ==
    CASE dataset = "cifar10" -> "CIFAR10DataModule"
      [] dataset = "stl10" -> "STL10DataModule"
      [] dataset = "imagenet" -> "ImagenetDataModule"

C5_CliOrder ==
    InCli =>
      /\ dm_cls # None => GivenDataset \in KnownDatasets /\ Get(dm_cls) = DmClsOf(GivenDataset)
      /\ GivenDataset \notin KnownDatasets =>
            /\ dm_cls = None /\ args = None /\ dm = None /\ model = None
            /\ callbacks = None /\ trainer = None /\ fits = <<>>
            /\ pc \in {"select", "raised"}
      /\ pc = "select" => dm_cls = None /\ args = None /\ dm = None /\ model = None /\ trainer = None
      /\ dm # None => dm_cls # None /\ Get(dm).cls = Get(dm_cls)
      /\ model # None =>
            /\ dm # None
            /\ Get(model).hparams = Get(args)
            /\ Get(model).input_height = Get(dm).size[3]
            /\ Get(model).decoder.input_height = Get(dm).size[3]
      /\ trainer # None => model # None
      /\ Len(fits) <= 1
      /\ fits # <<>> <=> pc = "done"
      /\ pc = "done" =>
            /\ fits[1].model = Get(model)
            /\ fits[1].dm = Get(dm)
            /\ fits[1].trainer = Get(trainer)

C5_Witness ==
    /\ pc = "done" /\ Len(fits) = 1
    /\ GivenDataset = "stl10"
    /\ fits[1].dm.cls = "STL10DataModule"
    /\ fits[1].dm.size[1] # fits[1].dm.size[3]
    /\ fits[1].dm.size[2] # fits[1].dm.size[3]

\* C6: the loss of a step is the mean squared error between the input x and
\* decoder(fc(encoder(x))), the sub-networks being applied in that order;
\* it is the same for every label y, and training_step and validation_step
\* both carry exactly this loss.
StepLoss(r) == IF r.op = "training_step" THEN Get(r.ret.minimize) ELSE Get(r.ret.checkpoint_on)

ReconstructionLoss(m, x) ==
    LET x_hat == Decoder(m.decoder, Linear(m.fc, Encoder(m.encoder, x)))
    IN (x_hat - x) * (x_hat - x)

C6_StepLoss ==
    (last # None /\ Get(last).op \in {"training_step", "validation_step"}) =>
        LET r == Get(last)
            x == r.batch[1]
            m == Get(model)
        IN /\ [i \in 1 .. 3 |-> r.calls[i].net] = <<"encoder", "fc", "decoder">>
           /\ Len(r.calls) = 3
           /\ r.calls[1].in = x
           /\ r.calls[2].in = r.calls[1].out
           /\ r.calls[3].in = r.calls[2].out
           /\ r.calls[1].out = Encoder(m.encoder, x)
           /\ r.calls[2].out = Linear(m.fc, r.calls[2].in)
           /\ r.calls[3].out = Decoder(m.decoder, r.calls[3].in)
           /\ StepLoss(r) = ReconstructionLoss(m, x)
           /\ \A y \in Labels :
                 /\ Get(TrainResult(Step(m, <<x, y>>)).minimize) = StepLoss(r)
                 /\ Get(EvalResult(Step(m, <<x, y>>)).checkpoint_on) = StepLoss(r)

C6_Witness ==
    /\ IsCall("validation_step")
    /\ Get(last).batch[1] # Get(last).batch[2]
    /\ StepLoss(Get(last)) > 0
    /\ StepLoss(Get(last)) #
          (Get(last).calls[3].out - Get(last).batch[2]) * (Get(last).calls[3].out - Get(last).batch[2])

\* C7: every constructed model has an encoder and a decoder of one family:
\* the resnet18 pair for enc_type 'resnet18', the resnet50 pair for
\* 'resnet50', the resnet18 pair for anything else; both are built with
\* the first_conv and maxpool1 the constructor was given.
C7_SameFamily ==
    model # None =>
        LET m == Get(model)
            enc_type == Opt(m.hparams, "enc_type", "resnet18")
            pair == <<m.encoder.fn, m.decoder.fn>>
        IN /\ enc_type = "resnet50" => pair = <<"resnet50_encoder", "resnet50_decoder">>
           /\ enc_type # "resnet50" => pair = <<"resnet18_encoder", "resnet18_decoder">>
           /\ m.encoder.first_conv = Opt(m.hparams, "first_conv", FALSE)
           /\ m.decoder.first_conv = m.encoder.first_conv
           /\ m.encoder.maxpool1 = Opt(m.hparams, "maxpool1", FALSE)
           /\ m.decoder.maxpool1 = m.encoder.maxpool1
           /\ excs \subseteq {KeyErrorExc}

C7_Witness ==
    /\ model # None
    /\ Opt(Get(model).hparams, "enc_type", "resnet18") = "vgg16"
    /\ Get(model).encoder.fn = "resnet18_encoder"
    /\ Get(model).decoder.fn = "resnet18_decoder"
    /\ Get(model).decoder.first_conv
    /\ ~Get(model).decoder.maxpool1

\* C8: the step limit of the model and of the trainer is None exactly when
\* --max_steps is -1 or absent and the given integer otherwise; max_steps is
\* converted before the model and the trainer exist; max_epochs is the given
\* value, 200 when absent.
GivenMaxSteps == Opt(Get(cmdline), "max_steps", -1)
GivenMaxEpochs == Opt(Get(cmdline), "max_epochs", 200)
StepLimit == IF GivenMaxSteps = -1 THEN None ELSE Some(GivenMaxSteps)

C8_StepLimit ==
    InCli =>
      /\ pc \in {"idle", "select", "parse", "datamodule", "height", "maxsteps", "raised"} =>
            model = None /\ trainer = None
      /\ model # None =>
            /\ Get(model).hparams.max_steps = StepLimit
            /\ Get(model).hparams.max_epochs = Some(GivenMaxEpochs)
      /\ trainer # None =>
            /\ Get(trainer).max_steps = StepLimit
            /\ Get(trainer).max_epochs = Some(GivenMaxEpochs)
      /\ pc = "done" =>
            /\ fits[1].trainer.max_steps = StepLimit
            /\ fits[1].model.hparams.max_steps = StepLimit

C8_Witness ==
    /\ pc = "done"
    /\ "max_steps" \in DOMAIN Get(cmdline)
    /\ GivenMaxSteps = 0
    /\ fits[1].trainer.max_steps = Some(0)
    /\ fits[1].trainer.max_epochs = Some(200)

\* C9: training_step returns a TrainResult minimising the step's loss and
\* logging it under 'train_loss' only, per step and not per epoch;
\* validation_step returns an EvalResult with the loss as checkpoint
\* criterion, logging it under 'val_loss' only.
HasPrefix(prefix, key) ==
    Len(key) >= Len(prefix) /\ SubSeq(key, 1, Len(prefix)) = prefix

LoggedKeys(r) == {e.key : e \in r.ret.logged}

C9_DisjointLogs ==
    /\ IsCall("training_step") =>
          LET r == Get(last) IN
          /\ r.ret.cls = "TrainResult"
          /\ r.ret.minimize = Some(ReconstructionLoss(Get(model), r.batch[1]))
          /\ r.ret.checkpoint_on = None
          /\ LoggedKeys(r) = {"train_loss"}
          /\ \A e \in r.ret.logged :
                /\ HasPrefix("train_", e.key) /\ ~HasPrefix("val_", e.key)
                /\ e.value = Get(r.ret.minimize)
                /\ e.on_step = Some(TRUE) /\ e.on_epoch = Some(FALSE)
    /\ IsCall("validation_step") =>
          LET r == Get(last) IN
          /\ r.ret.cls = "EvalResult"
          /\ r.ret.checkpoint_on = Some(ReconstructionLoss(Get(model), r.batch[1]))
          /\ r.ret.minimize = None
          /\ LoggedKeys(r) = {"val_loss"}
          /\ \A e \in r.ret.logged :
                /\ HasPrefix("val_", e.key) /\ ~HasPrefix("train_", e.key)
                /\ e.value = Get(r.ret.checkpoint_on)

C9_Witness ==
    /\ IsCall("training_step")
    /\ \E e \in Get(last).ret.logged : e.key = "train_loss" /\ e.value > 0

\* C10: the trainer is built from the parsed arguments alone; the callback
\* list cli_main builds is not among them, so the trainer that is fitted has
\* the callbacks it would have without that list, none.
C10_CallbacksUnused ==
    (InCli /\ trainer # None) =>
        LET t == Get(trainer)
            a == Get(args)
        IN /\ callbacks = Some(<<"TensorboardGenerativeModelImageSampler">>)
           /\ t.callbacks = None
           /\ t.gpus = a.gpus
           /\ t.max_epochs = a.max_epochs
           /\ t.max_steps = a.max_steps
           /\ t.fast_dev_run = a.fast_dev_run
           /\ pc = "done" => fits[1].trainer.callbacks = None

C10_Witness ==
    /\ pc = "done"
    /\ callbacks # None
    /\ Len(Get(callbacks)) = 1
    /\ fits[1].trainer.callbacks = None

TypeOK == pc \in {"idle", "select", "parse", "datamodule", "height", "maxsteps", "model",
                  "callbacks", "trainer", "fit", "done", "raised", "lib"}
====
